---- MODULE Spec2Model ----
(***************************************************************************)
(* Model of src/index.ts of hackmud-script-manager, as asynchronous state  *)
(* machines over a source tree and a deployment root:                      *)
(*   SpecPush    the one-shot push orchestrator                            *)
(*   SpecWatch   the incremental watch orchestrator                        *)
(*   SpecScan    the directory scans of push and watch, failures included  *)
(*   SpecMerge   one call of syncMacros and its writes                     *)
(*   SpecMacros  syncMacros, called again and again                        *)
(*   SpecTest    test                                                      *)
(*   SpecWriter  concurrent calls of writeFilePersist                      *)
(*   SpecPull    pull                                                      *)
(* The specifications share the variables; each one holds the variables of *)
(* the others at their idle value.                                         *)
(*                                                                         *)
(* Every suspension point of the code (an awaited filesystem call, the     *)
(* Transformer, a write) is one action; the code that runs synchronously   *)
(* after the suspension point resumes is part of that action.              *)
(***************************************************************************)
EXTENDS Naturals, Integers, Sequences, FiniteSets, TLC

(***************************************************************************)
(* Bounds of the model                                                     *)
(***************************************************************************)
\* greatest number of entries of the source tree
MaxFiles == 2
\* greatest length of the `users` argument
MaxFilterLen == 1
\* greatest number of change events delivered to one watch subscription
MaxEvents == 2

(***************************************************************************)
(* The universe the inputs are drawn from                                  *)
(***************************************************************************)
Users == {"alice", "bob"}
Names == {"foo", "bar"}
\* the directory that holds the global scripts (owner of a root-level file)
Root == "<root>"
\* order in which a directory listing enumerates user names
DirOrder == <<"alice", "bob">>

\* index.ts:16
supportedExtensions == {".js", ".ts"}

\* A directory entry of the source tree: <owner>/<name><ext>, a file or a
\* directory (Dirent.isFile()).  Entries of owner Root are root-level.
SrcUniverse ==
    { [owner |-> Root,    name |-> "foo", ext |-> ".js", kind |-> "file"],
      [owner |-> Root,    name |-> "bar", ext |-> ".ts", kind |-> "file"],
      [owner |-> "alice", name |-> "foo", ext |-> ".ts", kind |-> "file"],
      [owner |-> "bob",   name |-> "foo", ext |-> ".js", kind |-> "file"],
      [owner |-> "bob",   name |-> "foo", ext |-> ".md", kind |-> "file"],
      [owner |-> "bob",   name |-> "bar", ext |-> ".js", kind |-> "dir"] }

SrcTrees == { t \in SUBSET SrcUniverse : Cardinality(t) <= MaxFiles }

RECURSIVE SeqsUpTo(_, _)
SeqsUpTo(S, n) ==
    IF n = 0 THEN { <<>> }
    ELSE SeqsUpTo(S, n - 1) \cup
         { Append(s, x) : s \in { q \in SeqsUpTo(S, n - 1) : Len(q) = n - 1 }, x \in S }

UserFilters == SeqsUpTo(Users, MaxFilterLen)
\* the identity markers of the deployment root; they are read only when the
\* `users` argument is empty, so they are left out otherwise
KeySets(us) == IF us = <<>> THEN SUBSET Users ELSE { {} }
ScriptFilters == { <<>>, <<"foo">>, <<"bar">> }

\* Outputs of the Transformer: a rejection, or a text (a sequence of
\* characters), possibly empty.
SampleCode == <<"x", " ", "y", "\n">>
TransformResults ==
    { [rejected |-> TRUE,  code |-> <<>>],
      [rejected |-> FALSE, code |-> <<>>],
      [rejected |-> FALSE, code |-> SampleCode] }

(***************************************************************************)
(* Helpers                                                                 *)
(***************************************************************************)
\* Array.prototype.includes
Includes(seq, x) == \E i \in DOMAIN seq : seq[i] = x

Range(seq) == { seq[i] : i \in DOMAIN seq }

\* index.ts:433  script.replace(/[ \n\r]/g, "").length
IsBlank(c) == c \in {" ", "\n", "\r"}
hackmudLength(script) == Len(SelectSeq(script, LAMBDA c : ~IsBlank(c)))

\* variant: the user filter is not applied to the directories
PassesUserFilter_Always(us, u) == TRUE

\* index.ts:40, 228   !users.length || users.includes(user)
PassesUserFilter(us, u) == Len(us) = 0 \/ Includes(us, u)

\* index.ts:46, 97, 159, 228   !scripts.length || scripts.includes(name)
PassesScriptFilter(sc, n) == Len(sc) = 0 \/ Includes(sc, n)

\* index.ts:83-85, 203-205  the users with a .key file in the deployment root
KeyUsers(ks) == SelectSeq(DirOrder, LAMBDA u : u \in ks)

\* variant: the skip list is not consulted
GlobalTargets_NoSkip(us, skip) == us

\* index.ts:113-120, 198-211  the users of the effective list that do not
\* appear in the script's skip list, in order
GlobalTargets(us, skip) == SelectSeq(us, LAMBDA u : ~Includes(skip, u))

NoError == "null"

\* variant: empty output is not treated as a failure
TransformError_RejectOnly(r) == IF r.rejected THEN "rejected" ELSE NoError

\* index.ts:57-60, 66-72  the error recorded for a Transformer result
TransformError(r) ==
    IF r.rejected THEN "rejected"
    ELSE IF r.code = <<>> THEN "processed script was empty"
    ELSE NoError

\* the top-level directories of a source tree
UserDirs(tree) == { e.owner : e \in { x \in tree : x.owner # Root } }

\* index.ts:46  the entries of directory u that push treats as private scripts
PrivateScripts(tree, sc, u) ==
    { e \in tree : /\ e.owner = u
                   /\ e.ext \in supportedExtensions
                   /\ e.kind = "file"
                   /\ PassesScriptFilter(sc, e.name) }

\* index.ts:90-97  the root-level entries that push treats as global scripts
GlobalScripts(tree, sc) ==
    { e \in tree : /\ e.owner = Root
                   /\ e.kind = "file"
                   /\ e.ext \in supportedExtensions
                   /\ PassesScriptFilter(sc, e.name) }

\* variant: the scans are not waited for
ScansJoined_NoWait(sc) == TRUE

\* index.ts:87, 184  Promise.all over the directory scans has resolved: every
\* scan that was started has completed, none has failed
ScansJoined(sc) == \A u \in DOMAIN sc : sc[u] \in {"none", "done"}

\* index.ts:47-52  one skips.get / push / set per entry of a scanned directory
RECURSIVE AddSkips(_, _, _)
AddSkips(sk, es, u) ==
    IF es = {} THEN sk
    ELSE LET e == CHOOSE x \in es : TRUE
         IN  AddSkips([sk EXCEPT ![e.name] = Append(@, u)], es \ {e}, u)

(***************************************************************************)
(* State                                                                   *)
(***************************************************************************)
VARIABLES
    srcTree,       \* entries of the source root and of its user directories
    keys,          \* users with an identity marker in the deployment root
    usersArg,      \* the `users` argument as passed by the caller
    scriptsArg,    \* the `scripts` argument
    hasOnPush,     \* whether an onPush callback was passed
    users,         \* the `users` variable of the running call (reassigned)
    pc,            \* position of the body of push
    scans,         \* state of the readDir of each user directory
    skips,         \* the skips map: name -> list of users
    task,          \* state of the per-file promise chain
    result,        \* what the Transformer returned for each file
    infoAll,       \* the infoAll array
    writes,        \* the writeFilePersist calls issued so far
    called,        \* the Infos onPush has been invoked with
    resolved,      \* whether the promise returned by push has resolved
    infoAtResolve, \* infoAll as it was when the promise resolved
    events,        \* the change-event handlers of watch, in order of arrival
    unhandled,     \* events of watch with a rejection nothing handles
    mfiles,        \* the <user>.macros files of the deployment root
    mrun,          \* the running (or last) call of syncMacros
    mret,          \* what the calls of syncMacros produced, in order
    errors,        \* the errors array of test
    fs,            \* the directories and files the writeFilePersist calls see
    writers,       \* the running calls of writeFilePersist
    pull           \* the call of pull

vars == << srcTree, keys, usersArg, scriptsArg, hasOnPush, users, pc, scans,
           skips, task, result, infoAll, writes, called, resolved, infoAtResolve,
           events, unhandled, mfiles, mrun, mret, errors, fs, writers, pull >>

inputs == << srcTree, keys, usersArg, scriptsArg, hasOnPush >>

pushVars == << pc, scans, skips, task, result, infoAll, resolved, infoAtResolve >>

watchVars == << events, unhandled >>

macroVars == << mfiles, mrun, mret >>

\* the state of the operations other than push and watch
testVars == << errors >>

writerVars == << fs, writers >>

pullVars == << pull >>

otherVars == << macroVars, testVars, writerVars, pullVars >>

\* syncMacros has not been called
MacrosIdle ==
    /\ mfiles = [u \in Users |-> "none"]
    /\ mrun = "none"
    /\ mret = <<>>

\* test has not been called
TestIdle == errors = <<>>

\* no call of writeFilePersist is followed step by step
WriterIdle ==
    /\ fs = "none"
    /\ writers = <<>>

\* pull has not been called
PullIdle == pull = "none"

OthersIdle == MacrosIdle /\ TestIdle /\ WriterIdle /\ PullIdle

\* neither push nor watch has been called
PushWatchIdle ==
    /\ srcTree = {}
    /\ usersArg = <<>>
    /\ scriptsArg = <<>>
    /\ hasOnPush = FALSE
    /\ users = <<>>
    /\ scans = [u \in Users |-> "none"]
    /\ skips = [n \in Names |-> <<>>]
    /\ task = << >>
    /\ result = << >>
    /\ infoAll = <<>>
    /\ writes = {}
    /\ called = {}
    /\ resolved = FALSE
    /\ infoAtResolve = <<>>
    /\ events = <<>>
    /\ unhandled = {}

NoResult == [rejected |-> FALSE, code |-> <<"?">>]

\* index.ts:62, 106  the Info object of a file
Info(e, f, us, r) ==
    [ ev        |-> e,
      file      |-> f,
      users     |-> us,
      minLength |-> IF TransformError(r) = NoError THEN hackmudLength(r.code) ELSE 0,
      error     |-> TransformError(r) ]

\* a writeFilePersist(resolvePath(hackmudDir, user, "scripts", name + ".js"))
\* issued for source file f by push (e = 0) or by the e-th event of watch
\* as the k-th write of that file or event
Write(e, f, k, u) ==
    [ ev |-> e, src |-> f, k |-> k, user |-> u, name |-> f.name, status |-> "pending" ]

Settled(w, ok) == [w EXCEPT !.status = IF ok THEN "ok" ELSE "failed"]

WritesOf(f) == { w \in writes : w.src = f }

\* index.ts:74, 126, 218, 255  onPush(info)
Invoked(info) == called \cup {info}

(***************************************************************************)
(* push  (index.ts:30-136)                                                 *)
(***************************************************************************)
\* index.ts:30, 147  the arguments of a call of push or watch over a source
\* tree drawn from trees
CallInputs(trees) ==
    /\ srcTree \in trees
    /\ usersArg \in UserFilters
    /\ keys \in KeySets(usersArg)
    /\ scriptsArg \in ScriptFilters
    /\ hasOnPush \in BOOLEAN

\* index.ts:31-35, 147-148  the state at the start of the call, p being the
\* position of its body
CallStart(p) ==
    /\ users = usersArg
    /\ pc = p
    /\ scans = [u \in Users |-> "none"]
    /\ skips = [n \in Names |-> <<>>]
    /\ task = [f \in srcTree |-> "idle"]
    /\ result = [f \in srcTree |-> NoResult]
    /\ infoAll = <<>>
    /\ writes = {}
    /\ called = {}
    /\ resolved = FALSE
    /\ infoAtResolve = <<>>
    /\ events = <<>>
    /\ unhandled = {}
    /\ OthersIdle

\* index.ts:30-35  push has been called and awaits readDir(srcDir)
InitPush == CallInputs(SrcTrees) /\ CallStart("readSrc")

\* index.ts:33-85  readDir(srcDir) resolves; the loop starts the scan of every
\* user directory that passes the user filter; then users is resolved
ReadSrcDone ==
    /\ pc = "readSrc"
    /\ scans' = [u \in Users |->
                    IF u \in UserDirs(srcTree) /\ PassesUserFilter(users, u)
                    THEN "pending" ELSE "none"]
    /\ pc' = IF Len(users) = 0 THEN "readKeys" ELSE "join"
    /\ UNCHANGED << inputs, otherVars, watchVars, users, skips, task, result, infoAll, writes,
                    called, resolved, infoAtResolve >>

\* index.ts:41-78  readDir(<srcDir>/<u>) resolves: every private script is
\* registered in skips and its readFile chain is started (not joined)
ScanDone(u) ==
    /\ scans[u] = "pending"
    /\ scans' = [scans EXCEPT ![u] = "done"]
    /\ skips' = AddSkips(skips, PrivateScripts(srcTree, scriptsArg, u), u)
    /\ task' = [f \in srcTree |->
                   IF f \in PrivateScripts(srcTree, scriptsArg, u)
                   THEN "transforming" ELSE task[f]]
    /\ UNCHANGED << inputs, otherVars, watchVars, users, pc, result, infoAll, writes, called,
                    resolved, infoAtResolve >>

\* index.ts:82-85  readDir(hackmudDir) resolves: users becomes the key owners
ReadKeysDone ==
    /\ pc = "readKeys"
    /\ users' = KeyUsers(keys)
    /\ pc' = "join"
    /\ UNCHANGED << inputs, otherVars, watchVars, scans, skips, task, result, infoAll, writes,
                    called, resolved, infoAtResolve >>

\* index.ts:87-131  Promise.all(promises) of the directory scans resolves; the
\* readFile chain of every global script is started
StartGlobals ==
    /\ pc = "join"
    /\ ScansJoined(scans)
    /\ task' = [f \in srcTree |->
                   IF f \in GlobalScripts(srcTree, scriptsArg)
                   THEN "transforming" ELSE task[f]]
    /\ pc' = "globals"
    /\ UNCHANGED << inputs, otherVars, watchVars, users, scans, skips, result, infoAll, writes,
                    called, resolved, infoAtResolve >>

\* index.ts:54-75  readFile and processScript of a private script are over:
\* the Info is appended; on success the single write is issued and awaited,
\* otherwise onPush is invoked at once
PrivateTransformDone(f, r) ==
    /\ f.owner # Root
    /\ task[f] = "transforming"
    /\ result' = [result EXCEPT ![f] = r]
    /\ infoAll' = Append(infoAll, Info(0, f, <<f.owner>>, r))
    /\ IF TransformError(r) = NoError
       THEN /\ writes' = writes \cup { Write(0, f, 1, f.owner) }
            /\ task' = [task EXCEPT ![f] = "writing"]
            /\ UNCHANGED called
       ELSE /\ called' = IF hasOnPush
                         THEN Invoked(Info(0, f, <<f.owner>>, r))
                         ELSE called
            /\ task' = [task EXCEPT ![f] = "done"]
            /\ UNCHANGED writes
    /\ UNCHANGED << inputs, otherVars, watchVars, users, pc, scans, skips, resolved, infoAtResolve >>

\* index.ts:69-74  the write of a private script settles: on success the chain
\* goes on to onPush, on failure the chain's promise rejects
PrivateWriteSettle(w, ok) ==
    /\ w \in writes
    /\ w.status = "pending"
    /\ w.ev = 0
    /\ w.src.owner # Root
    /\ writes' = (writes \ {w}) \cup { Settled(w, ok) }
    /\ task' = [task EXCEPT ![w.src] = IF ok THEN "done" ELSE "rejected"]
    /\ called' = IF ok /\ hasOnPush
                 THEN Invoked(Info(0, w.src, <<w.src.owner>>, result[w.src]))
                 ELSE called
    /\ UNCHANGED << inputs, otherVars, watchVars, users, pc, scans, skips, result, infoAll,
                    resolved, infoAtResolve >>

\* the users a global script is written to, and the writes issued for it
GlobalUsers(f, r) ==
    IF TransformError(r) = NoError THEN GlobalTargets(users, skips[f.name]) ELSE <<>>

GlobalWrites(f, r) ==
    { Write(0, f, i, GlobalUsers(f, r)[i]) : i \in DOMAIN GlobalUsers(f, r) }

\* index.ts:98-127  readFile and processScript of a global script are over:
\* the Info is appended and a write is issued for every target user; the
\* chain's promise then resolves without waiting for the writes
GlobalTransformDone(f, r) ==
    /\ f.owner = Root
    /\ task[f] = "transforming"
    /\ result' = [result EXCEPT ![f] = r]
    /\ infoAll' = Append(infoAll, Info(0, f, GlobalUsers(f, r), r))
    /\ writes' = writes \cup GlobalWrites(f, r)
    /\ task' = [task EXCEPT ![f] = "done"]
    /\ UNCHANGED << inputs, otherVars, watchVars, users, pc, scans, skips, called, resolved, infoAtResolve >>

\* index.ts:119  a write of a global script settles; nothing waits for it
GlobalWriteSettle(w, ok) ==
    /\ w \in writes
    /\ w.status = "pending"
    /\ w.ev = 0
    /\ w.src.owner = Root
    /\ writes' = (writes \ {w}) \cup { Settled(w, ok) }
    /\ UNCHANGED << inputs, otherVars, watchVars, users, pc, scans, skips, task, result, infoAll,
                    called, resolved, infoAtResolve >>

\* the promises of the list declared at index.ts:88 have all resolved
GlobalChainsDone ==
    /\ pc \in {"globals", "resolved"}
    /\ \A f \in GlobalScripts(srcTree, scriptsArg) : task[f] = "done"

InfoOf(f) == CHOOSE x \in Range(infoAll) : x.file = f

WasCalled(f) == \E x \in called : x.file = f

\* index.ts:125-126  Promise.all(promises).then(() => onPush(info)), where
\* promises is the list of index.ts:88 (the chains of all global scripts)
GlobalCallback(f) ==
    /\ hasOnPush
    /\ f \in GlobalScripts(srcTree, scriptsArg)
    /\ GlobalChainsDone
    /\ ~WasCalled(f)
    /\ called' = Invoked(InfoOf(f))
    /\ UNCHANGED << inputs, otherVars, watchVars, users, pc, scans, skips, task, result, infoAll,
                    writes, resolved, infoAtResolve >>

\* index.ts:133  Promise.all(promises).then(() => resolve(infoAll))
Resolve ==
    /\ pc = "globals"
    /\ GlobalChainsDone
    /\ pc' = "resolved"
    /\ resolved' = TRUE
    /\ infoAtResolve' = infoAll
    /\ UNCHANGED << inputs, otherVars, watchVars, users, scans, skips, task, result, infoAll,
                    writes, called >>

NextPush ==
    \/ ReadSrcDone
    \/ \E u \in Users : ScanDone(u)
    \/ ReadKeysDone
    \/ StartGlobals
    \/ \E f \in srcTree, r \in TransformResults : PrivateTransformDone(f, r)
    \/ \E w \in writes, ok \in BOOLEAN : PrivateWriteSettle(w, ok)
    \/ \E f \in srcTree, r \in TransformResults : GlobalTransformDone(f, r)
    \/ \E w \in writes, ok \in BOOLEAN : GlobalWriteSettle(w, ok)
    \/ \E f \in srcTree : GlobalCallback(f)
    \/ Resolve

SpecPush == InitPush /\ [][NextPush]_vars

\* index.ts:41  readDir(<srcDir>/<u>) rejects: the promise of the scan, a
\* member of the list joined at index.ts:87, rejects
ScanFail(u) ==
    /\ pc \in {"readKeys", "join"}
    /\ scans[u] = "pending"
    /\ scans' = [scans EXCEPT ![u] = "failed"]
    /\ UNCHANGED << inputs, otherVars, watchVars, users, pc, skips, task, result, infoAll,
                    writes, called, resolved, infoAtResolve >>

(***************************************************************************)
(* watch  (index.ts:147-264)                                               *)
(*                                                                         *)
(* Each change event runs the async handler of index.ts:148; handlers of   *)
(* different events interleave at their suspension points and share the    *)
(* `users` variable of the enclosing call.                                 *)
(***************************************************************************)
\* index.ts:164-179  the entries of directory u that watch registers in skips
WatchOverrides(tree, u) ==
    { e \in tree : e.owner = u /\ e.kind = "file" /\ e.ext \in supportedExtensions }

\* index.ts:151-159, 228  whether the handler goes on to read the changed file
WatchAccepts(f, us, sc) ==
    /\ f.ext \in supportedExtensions
    /\ PassesScriptFilter(sc, f.name)
    /\ f.owner # Root => PassesUserFilter(us, f.owner)

\* index.ts:238, 246-247  the users listed by the Info of a private script:
\* the owner, then every user the loop at 246 iterates over
WatchPrivateInfoUsers(user, us) == <<user>> \o us

\* variant: the write is part of the body of the loop at 246
WatchPrivateTargets_Loop(user, us) == us

\* index.ts:246-248  the users a private script is written to: line 248 is
\* not part of the body of the loop at 246, so it runs once, for the `user`
\* of line 226
WatchPrivateTargets(user, us) == <<user>>

Handler(f, p) ==
    [ file  |-> f,
      pc    |-> p,
      scans |-> [u \in Users |-> "none"],
      skips |-> [n \in Names |-> <<>>],
      res   |-> NoResult,
      info  |-> <<>> ]

WritesOfEvent(e) == { w \in writes : w.ev = e }

\* the handler of event e is between its start and its return or rejection
Running(e) == events[e].pc \notin {"ignored", "done", "rejected", "gone"}

\* the handler of event e is over and so are its writes: the program holds
\* no reference to the event any more
Over(e) == ~Running(e) /\ \A w \in WritesOfEvent(e) : w.status # "pending"

\* what is kept of an event that is over
Gone == Handler([owner |-> Root, name |-> "", ext |-> "", kind |-> "none"], "gone")

\* index.ts:147-148  watch has been called and the subscription is in place
InitWatch == CallInputs(SrcTrees) /\ CallStart("watch")

\* index.ts:148-160, 225-229  a change event for file f: the handler returns
\* at once when the extension or a filter rejects the path, otherwise it
\* starts reading the file.  The records of the events that are over are
\* dropped: they are history, not state of the program.
ChangeEvent(f) ==
    /\ pc = "watch"
    /\ Len(events) < MaxEvents
    /\ f.kind = "file"
    /\ events' = Append([ e \in DOMAIN events |-> IF Over(e) THEN Gone ELSE events[e] ],
                        Handler(f, IF WatchAccepts(f, users, scriptsArg)
                                   THEN "readFile" ELSE "ignored"))
    /\ writes' = { w \in writes : ~Over(w.ev) }
    /\ called' = { x \in called : ~Over(x.ev) }
    /\ unhandled' = { e \in unhandled : ~Over(e) }
    /\ UNCHANGED << inputs, otherVars, pushVars, users >>

\* the handler of event e rejects: nothing handles the promise it returned
Reject(e) ==
    /\ events' = [events EXCEPT ![e].pc = "rejected"]
    /\ unhandled' = unhandled \cup {e}

\* index.ts:160, 229  readFile of the changed file settles
WatchReadFileDone(e, ok) ==
    /\ e \in DOMAIN events
    /\ events[e].pc = "readFile"
    /\ IF ok
       THEN /\ events' = [events EXCEPT ![e].pc =
                             IF events[e].file.owner = Root THEN "readSrc" ELSE "transform"]
            /\ UNCHANGED unhandled
       ELSE Reject(e)
    /\ UNCHANGED << inputs, otherVars, pushVars, users, writes, called >>

\* index.ts:164-182  readDir(srcDir) settles: the scan of every user
\* directory is started
WatchReadSrcDone(e, ok) ==
    /\ e \in DOMAIN events
    /\ events[e].pc = "readSrc"
    /\ IF ok
       THEN /\ events' = [events EXCEPT
                            ![e].pc = "scanning",
                            ![e].scans = [u \in Users |->
                                IF u \in UserDirs(srcTree) THEN "pending" ELSE "none"]]
            /\ UNCHANGED unhandled
       ELSE Reject(e)
    /\ UNCHANGED << inputs, otherVars, pushVars, users, writes, called >>

\* index.ts:166-182  readDir(<srcDir>/<u>) settles: the scripts of u are
\* registered in the skips of this event; a failure rejects Promise.all
WatchScanDone(e, u, ok) ==
    /\ e \in DOMAIN events
    /\ events[e].pc = "scanning"
    /\ events[e].scans[u] = "pending"
    /\ IF ok
       THEN /\ events' = [events EXCEPT
                            ![e].scans[u] = "done",
                            ![e].skips = AddSkips(@, WatchOverrides(srcTree, u), u)]
            /\ UNCHANGED unhandled
       ELSE Reject(e)
    /\ UNCHANGED << inputs, otherVars, pushVars, users, writes, called >>

\* index.ts:198-219  the writes of a global script to the users us that are
\* not in its skip list; with a callback the handler waits for them
WatchDeploy(e, us, r) ==
    LET f       == events[e].file
        targets == GlobalTargets(us, events[e].skips[f.name])
        info    == Info(e, f, targets, r)
    IN  /\ writes' = writes \cup { Write(e, f, i, targets[i]) : i \in DOMAIN targets }
        /\ IF hasOnPush /\ targets # <<>>
           THEN /\ events' = [events EXCEPT ![e].pc = "awaitWrites",
                                            ![e].res = r,
                                            ![e].info = <<info>>]
                /\ UNCHANGED called
           ELSE /\ events' = [events EXCEPT ![e].pc = "done",
                                            ![e].res = r,
                                            ![e].info = <<info>>]
                /\ called' = IF hasOnPush THEN Invoked(info) ELSE called

\* index.ts:184-214  all scans are over and processScript has settled
WatchGlobalTransformDone(e, r) ==
    /\ e \in DOMAIN events
    /\ events[e].pc = "scanning"
    /\ ScansJoined(events[e].scans)
    /\ IF TransformError(r) # NoError
       THEN /\ events' = [events EXCEPT ![e].pc = "done", ![e].res = r,
                            ![e].info = <<Info(e, events[e].file, <<>>, r)>>]
            /\ called' = IF hasOnPush
                         THEN Invoked(Info(e, events[e].file, <<>>, r))
                         ELSE called
            /\ UNCHANGED << writes, users >>
       ELSE IF Len(users) = 0
            THEN /\ events' = [events EXCEPT ![e].pc = "readKeys", ![e].res = r]
                 /\ UNCHANGED << writes, called, users >>
            ELSE /\ WatchDeploy(e, users, r)
                 /\ UNCHANGED users
    /\ UNCHANGED << inputs, otherVars, pushVars, unhandled >>

\* index.ts:202-211  readDir(hackmudDir) settles: the shared users variable
\* is reassigned and the writes are issued
WatchReadKeysDone(e, ok) ==
    /\ e \in DOMAIN events
    /\ events[e].pc = "readKeys"
    /\ IF ok
       THEN /\ users' = KeyUsers(keys)
            /\ WatchDeploy(e, KeyUsers(keys), events[e].res)
            /\ UNCHANGED unhandled
       ELSE /\ Reject(e)
            /\ UNCHANGED << users, writes, called >>
    /\ UNCHANGED << inputs, otherVars, pushVars >>

\* index.ts:231-256  processScript of a private script has settled: the Info
\* is built, the write is issued and, as the list awaited at 254 is the empty
\* one of 239, onPush is invoked without waiting
WatchPrivateTransformDone(e, r) ==
    /\ e \in DOMAIN events
    /\ events[e].pc = "transform"
    /\ LET f       == events[e].file
           targets == WatchPrivateTargets(f.owner, users)
       IN  IF TransformError(r) # NoError
           THEN /\ events' = [events EXCEPT ![e].pc = "done", ![e].res = r,
                                ![e].info = <<Info(e, f, <<f.owner>>, r)>>]
                /\ called' = IF hasOnPush
                             THEN Invoked(Info(e, f, <<f.owner>>, r))
                             ELSE called
                /\ UNCHANGED writes
           ELSE /\ events' = [events EXCEPT ![e].pc = "done", ![e].res = r,
                                ![e].info = <<Info(e, f, WatchPrivateInfoUsers(f.owner, users), r)>>]
                /\ called' = IF hasOnPush
                             THEN Invoked(Info(e, f, WatchPrivateInfoUsers(f.owner, users), r))
                             ELSE called
                /\ writes' = writes \cup { Write(e, f, i, targets[i]) : i \in DOMAIN targets }
    /\ UNCHANGED << inputs, otherVars, pushVars, users, unhandled >>

\* index.ts:210, 217, 248  a write issued by event e settles.  A handler that
\* awaits its writes (217) invokes onPush after the last one and rejects on
\* the first failure; a write nobody awaits fails as an unhandled rejection
WatchWriteSettle(w, ok) ==
    /\ w \in writes
    /\ w.status = "pending"
    /\ w.ev # 0
    /\ writes' = (writes \ {w}) \cup { Settled(w, ok) }
    /\ LET e == w.ev
       IN  IF events[e].pc = "awaitWrites"
           THEN IF ~ok
                THEN /\ Reject(e)
                     /\ UNCHANGED called
                ELSE IF \A x \in WritesOfEvent(e) \ {w} : x.status = "ok"
                     THEN /\ events' = [events EXCEPT ![e].pc = "done"]
                          /\ called' = Invoked(events[e].info[1])
                          /\ UNCHANGED unhandled
                     ELSE UNCHANGED << events, called, unhandled >>
           ELSE /\ unhandled' = IF ok \/ events[e].pc = "rejected"
                                THEN unhandled ELSE unhandled \cup {e}
                /\ UNCHANGED << events, called >>
    /\ UNCHANGED << inputs, otherVars, pushVars, users >>

NextWatch ==
    \/ \E f \in srcTree : ChangeEvent(f)
    \/ \E e \in DOMAIN events, ok \in BOOLEAN : WatchReadFileDone(e, ok)
    \/ \E e \in DOMAIN events, ok \in BOOLEAN : WatchReadSrcDone(e, ok)
    \/ \E e \in DOMAIN events, u \in Users, ok \in BOOLEAN : WatchScanDone(e, u, ok)
    \/ \E e \in DOMAIN events, r \in TransformResults : WatchGlobalTransformDone(e, r)
    \/ \E e \in DOMAIN events, ok \in BOOLEAN : WatchReadKeysDone(e, ok)
    \/ \E e \in DOMAIN events, r \in TransformResults : WatchPrivateTransformDone(e, r)
    \/ \E w \in writes, ok \in BOOLEAN : WatchWriteSettle(w, ok)

SpecWatch == InitWatch /\ [][NextWatch]_vars

(***************************************************************************)
(* The directory scans of push and of watch, with scans that fail, over    *)
(* source trees that hold one global script and one entry in the           *)
(* directory of each user                                                  *)
(***************************************************************************)
ScanTrees ==
    { t \in SUBSET SrcUniverse :
        /\ Cardinality(t) = Cardinality(Users) + 1
        /\ UserDirs(t) = Users
        /\ GlobalScripts(t, <<>>) # {} }

InitScan == CallInputs(ScanTrees) /\ (CallStart("readSrc") \/ CallStart("watch"))

\* of watch, the handlers that scan: those of the root-level files
NextScan ==
    \/ NextPush
    \/ \E u \in Users : ScanFail(u)
    \/ \E f \in GlobalScripts(srcTree, <<>>) : ChangeEvent(f)
    \/ \E e \in DOMAIN events, ok \in BOOLEAN : WatchReadFileDone(e, ok)
    \/ \E e \in DOMAIN events, ok \in BOOLEAN : WatchReadSrcDone(e, ok)
    \/ \E e \in DOMAIN events, u \in Users, ok \in BOOLEAN : WatchScanDone(e, u, ok)
    \/ \E e \in DOMAIN events, r \in TransformResults : WatchGlobalTransformDone(e, r)
    \/ \E e \in DOMAIN events, ok \in BOOLEAN : WatchReadKeysDone(e, ok)
    \/ \E w \in writes, ok \in BOOLEAN : WatchWriteSettle(w, ok)

SpecScan == InitScan /\ [][NextScan]_vars

(***************************************************************************)
(* Properties of push                                                      *)
(***************************************************************************)
\* the contract's vocabulary, stated over the inputs of the call
EffectiveUsers == IF usersArg # <<>> THEN Range(usersArg) ELSE keys

Overriders(n) ==
    { u \in Users : \E e \in srcTree :
        e.owner = u /\ e.name = n /\ e.kind = "file" /\ e.ext \in {".js", ".ts"} }

NameAdmitted(n) == scriptsArg = <<>> \/ n \in Range(scriptsArg)

UserAdmitted(u) == usersArg = <<>> \/ u \in Range(usersArg)

IsScript(e) == e.kind = "file" /\ e.ext \in {".js", ".ts"}

\* the source files that pass the filters of the call
Eligible ==
    { e \in srcTree : /\ IsScript(e)
                      /\ NameAdmitted(e.name)
                      /\ e.owner # Root => UserAdmitted(e.owner) }

HasInfo(f) == \E x \in Range(infoAll) : x.file = f

Succeeded(f) == HasInfo(f) /\ ~result[f].rejected /\ result[f].code # <<>>

Failed(f) == HasInfo(f) /\ (result[f].rejected \/ result[f].code = <<>>)

WrittenUsers(f) == { w.user : w \in WritesOf(f) }

\* C1: a global script whose transformation succeeded is written to, and its
\* Info lists, exactly the effective users that hold no private script of its
\* name; every such write goes to the script's own name.
C1_GlobalDeploysToNonOverriders ==
    \A x \in Range(infoAll) :
        (x.file.owner = Root /\ Succeeded(x.file)) =>
            /\ WrittenUsers(x.file) = EffectiveUsers \ Overriders(x.file.name)
            /\ Range(x.users) = EffectiveUsers \ Overriders(x.file.name)
            /\ \A w \in WritesOf(x.file) : w.name = x.file.name

\* C1 witness: a global script has been pushed while an effective user holds
\* a private script of the same name and another effective user does not.
C1_Witness ==
    \E x \in Range(infoAll) :
        /\ x.file.owner = Root
        /\ Succeeded(x.file)
        /\ Overriders(x.file.name) \cap EffectiveUsers # {}
        /\ WrittenUsers(x.file) # {}

\* C2: a private script is written at most once and only to its owner; once
\* its transformation has succeeded exactly one write has been issued; a
\* private script whose owner the user filter excludes is never written.
C2_PrivateDeploysToOwnerOnly ==
    \A f \in srcTree :
        f.owner # Root =>
            /\ \A w \in WritesOf(f) : w.user = f.owner /\ w.name = f.name
            /\ Cardinality(WritesOf(f)) <= 1
            /\ Succeeded(f) => Cardinality(WritesOf(f)) = 1
            /\ (usersArg # <<>> /\ f.owner \notin Range(usersArg)) =>
                   (WritesOf(f) = {} /\ ~HasInfo(f))

\* C2 witness: with a non-empty user filter, a private script of an admitted
\* user has been written while the tree holds a script of an excluded user.
C2_Witness ==
    /\ usersArg # <<>>
    /\ \E f \in srcTree : f.owner # Root /\ Succeeded(f) /\ Cardinality(WritesOf(f)) = 1
    /\ \E g \in srcTree : g.owner \in Users /\ IsScript(g) /\ NameAdmitted(g.name)
                          /\ g.owner \notin Range(usersArg)

\* C3 (as claimed): the promise of push resolves only after every write push
\* schedules has settled.  Once the promise has resolved no write is pending:
\* neither a write that was pending at the moment of resolution, nor a write
\* that had not been started then and is started afterwards.
C3_ResolvedAfterAllWrites ==
    resolved => \A w \in writes : w.status # "pending"

\* C4 (as claimed): once the promise of push has resolved the list holds an
\* Info for every file that passed the filters and is the list that was
\* returned.
C4_ResultCompleteAndFrozen ==
    resolved => /\ \A f \in Eligible : HasInfo(f)
                /\ infoAll = infoAtResolve

\* no chain of push is still running
PushQuiescent ==
    /\ pc = "resolved"
    /\ \A f \in srcTree : task[f] \notin {"transforming", "writing"}

\* C5: a file the Transformer rejected or returned empty output for has a
\* non-null error in its Info and no write; whatever happened to the other
\* files, a file that was transformed successfully has no error and exactly
\* the writes its own inputs call for, and every file that passed the filters
\* has been processed once push has run to its end.
C5_TransformFailureIsolated ==
    /\ \A x \in Range(infoAll) :
          Failed(x.file) => /\ x.error # NoError
                            /\ WritesOf(x.file) = {}
                            /\ x.minLength = 0
    /\ \A x \in Range(infoAll) :
          Succeeded(x.file) =>
             /\ x.error = NoError
             /\ WrittenUsers(x.file) =
                   IF x.file.owner = Root
                   THEN EffectiveUsers \ Overriders(x.file.name)
                   ELSE {x.file.owner}
    /\ PushQuiescent => \A f \in Eligible : HasInfo(f)

\* C5 witness: push has run to its end with one file that failed in the
\* Transformer (rejected or empty) and another that was written.
C5_Witness ==
    /\ PushQuiescent
    /\ \E x \in Range(infoAll) : Failed(x.file) /\ ~result[x.file].rejected
    /\ \E y \in Range(infoAll) : Succeeded(y.file) /\ WritesOf(y.file) # {}

OwnWritesSettled(f) == \A w \in WritesOf(f) : w.status # "pending"

NoWriteFailed == \A w \in writes : w.status # "failed"

\* C8 (as claimed): with a callback, and as long as no write has failed, the
\* callback of a processed file has been invoked only if the file's own
\* writes have settled, and once they have settled it has been invoked or can
\* be invoked at once, whatever the state of the other files.
C8_CallbackOnOwnWrites ==
    (hasOnPush /\ NoWriteFailed) =>
        \A x \in Range(infoAll) :
            /\ WasCalled(x.file) => OwnWritesSettled(x.file)
            /\ OwnWritesSettled(x.file) =>
                  (WasCalled(x.file) \/ ENABLED GlobalCallback(x.file))

(***************************************************************************)
(* Properties of watch                                                     *)
(***************************************************************************)
Emitted(e) == events[e].info # <<>>

\* the handler of event e has transformed a private script successfully
PrivateDeployed(e) ==
    /\ events[e].file.owner # Root
    /\ Emitted(e)
    /\ events[e].info[1].error = NoError

\* C6: a change event for a private script that passed the filters and was
\* transformed to non-empty output has issued exactly one write, to the
\* owner's deployment path for the script's name, and no event for a private
\* script ever writes to another user.
C6_WatchPrivateWritesOwnerOnly ==
    /\ \A e \in DOMAIN events :
          PrivateDeployed(e) =>
             /\ Cardinality(WritesOfEvent(e)) = 1
             /\ \A w \in WritesOfEvent(e) :
                   w.user = events[e].file.owner /\ w.name = events[e].file.name
    /\ \A w \in writes :
          (w.ev # 0 /\ w.src.owner # Root) => w.user = w.src.owner

\* C6 witness: a private script has been deployed by an event while the
\* users variable held a user other than its owner.
C6_Witness ==
    \E e \in DOMAIN events :
        /\ PrivateDeployed(e)
        /\ Range(users) \ {events[e].file.owner} # {}
        /\ \E w \in WritesOfEvent(e) : w.status = "ok"

\* C7 (as claimed): the Info a private-script event passes to onPush lists
\* exactly one user, the owner.
C7_WatchPrivateInfoListsOwner ==
    \A x \in called :
        (x.ev # 0 /\ x.file.owner # Root) => x.users = <<x.file.owner>>

\* C9 (as claimed): when onPush has been invoked for an event, every write
\* issued for that event has completed.
C9_WatchCallbackAfterWrites ==
    \A x \in called :
        x.ev # 0 => \A w \in WritesOfEvent(x.ev) : w.status = "ok"

\* C10 (as claimed): no failure escapes the handler of a change event: no
\* handler's promise rejects and no write fails unobserved.
C10_WatchFailureContained ==
    /\ unhandled = {}
    /\ \A e \in DOMAIN events : events[e].pc # "rejected"

(***************************************************************************)
(* syncMacros  (index.ts:278-321)                                          *)
(*                                                                         *)
(* A line of text is a sequence of characters; the content of a file is    *)
(* the sequence of lines content.split("\n") yields, so a text that ends   *)
(* with a newline has the empty line as its last element.                  *)
(***************************************************************************)
\* greatest number of macro records in the macro files of the deployment root
MaxRecords == 2
\* greatest last-modified timestamp of a macro file before the first call
MaxTime == 2
\* greatest number of consecutive calls of syncMacros
MaxRuns == 2

EmptyLine == <<>>

MacroNames == { <<"a">>, <<"B">> }
MacroBodies == { <<"x">>, <<"Y">>, EmptyLine }
MacroRecords == [name : MacroNames, macro : MacroBodies]

\* String.prototype.toLowerCase on one character
ToLowerCase(c) ==
    CASE c = "B" -> "b"
      [] c = "Y" -> "y"
      [] OTHER   -> c

\* the UTF-16 code unit of a character
CharCode(c) ==
    CASE c = "B" -> 66
      [] c = "Y" -> 89
      [] c = "a" -> 97
      [] c = "b" -> 98
      [] c = "x" -> 120
      [] c = "y" -> 121

\* index.ts:311  a < b on strings: comparison by code units
RECURSIVE StrLess(_, _)
StrLess(a, b) ==
    IF b = <<>> THEN FALSE
    ELSE IF a = <<>> THEN TRUE
    ELSE IF Head(a) = Head(b) THEN StrLess(Tail(a), Tail(b))
    ELSE CharCode(Head(a)) < CharCode(Head(b))

\* index.ts:313  the lines of the text made of `${name}\n${macro}\n` blocks
RECURSIVE MacroText(_)
MacroText(recs) ==
    IF recs = <<>> THEN << EmptyLine >>
    ELSE << recs[1].name, recs[1].macro >> \o MacroText(Tail(recs))

\* index.ts:290-291, 295  the records the loop reads from the lines of a
\* file: i runs from 0 while i < lines.length / 2 - 1
ParseMacros(lines) ==
    LET n == Cardinality({ i \in 0 .. Len(lines) : 2 * i < Len(lines) - 2 })
    IN  [ i \in 1 .. n |-> [name |-> lines[2 * i - 1], macro |-> lines[2 * i]] ]

\* Map.prototype.get of a name the map does not hold
NoMacro == [macro |-> EmptyLine, date |-> 0]

\* variant: a record always replaces the one held for its name
IsNewer_Always(date, curDate) == TRUE

\* variant: a record replaces the one held for its name unless it is older
IsNewer_OrEqual(date, curDate) == date >= curDate

\* index.ts:294  date > curMacro.date
IsNewer(date, curDate) == date > curDate

\* index.ts:290-296  the records of one file are merged into the map
RECURSIVE MergeRecords(_, _, _)
MergeRecords(m, recs, date) ==
    IF recs = <<>> THEN m
    ELSE LET r == Head(recs)
         IN  MergeRecords(
                IF m[r.name] = NoMacro \/ IsNewer(date, m[r.name].date)
                THEN [m EXCEPT ![r.name] = [macro |-> r.macro, date |-> date]]
                ELSE m,
                Tail(recs), date)

\* index.ts:311  the names of the map, sorted
RECURSIVE SortNames(_)
SortNames(ns) ==
    IF ns = {} THEN <<>>
    ELSE LET least == CHOOSE n \in ns : \A o \in ns \ {n} : StrLess(n, o)
         IN  << least >> \o SortNames(ns \ {least})

\* index.ts:312  macro[0] == macro[0].toLowerCase()
Retained(name, macro) == macro[1] = ToLowerCase(macro[1])

\* index.ts:312  macro[0] is undefined for an empty string and the call of
\* toLowerCase on it throws a TypeError
Throws(m) == \E n \in DOMAIN m : m[n] # NoMacro /\ m[n].macro = EmptyLine

\* index.ts:311-315  the records written, in order
MergedRecords(m) ==
    LET sorted == SortNames({ n \in DOMAIN m : m[n] # NoMacro })
        recs   == [ i \in DOMAIN sorted |-> [name |-> sorted[i], macro |-> m[sorted[i]].macro] ]
    IN  SelectSeq(recs, LAMBDA r : Retained(r.name, r.macro))

NoFile == [present |-> FALSE, lines |-> << EmptyLine >>, mtime |-> 0]

MacroFile(recs, t) == [present |-> TRUE, lines |-> MacroText(recs), mtime |-> t]

MacroFileStates ==
    { NoFile } \cup
    { MacroFile(recs, t) : recs \in SeqsUpTo(MacroRecords, MaxRecords), t \in 1 .. MaxTime }

RecordsIn(file) == Len(ParseMacros(file.lines))

Max(S) == CHOOSE x \in S : \A y \in S : y <= x

\* index.ts:283  the .macros files in the order readDir enumerates them
MacroFilesIn(order, files) == SelectSeq(order, LAMBDA u : files[u].present)

\* a writeFile of line 318 that has not completed: of the run-th call, for
\* the macro file of user; it is open once it has truncated the file
MacroWrite(u, run) == [user |-> u, run |-> run, open |-> FALSE]

\* index.ts:318  the lines of a file after a write of the records recs at
\* offset 0.  The file is empty unless another write has filled it after this
\* one truncated it; what that write put beyond the end of recs stays.  The
\* texts syncMacros writes are made of blocks of one size (a one-character
\* name and a one-character body), so the blocks are overwritten one for one.
Overwritten(lines, recs) ==
    LET old == ParseMacros(lines)
    IN  MacroText(recs \o SubSeq(old, Len(recs) + 1, Len(old)))

\* index.ts:278-279  syncMacros has been called and awaits readDir; the order
\* in which readDir enumerates the entries is any order.  `now` is the time
\* of the latest modification of a file by a write, or the earliest time of
\* the first one; `pending` holds the writes issued that have not completed,
\* of this call and of those before
InitMacros ==
    /\ PushWatchIdle
    /\ TestIdle
    /\ WriterIdle
    /\ PullIdle
    /\ keys \in SUBSET Users
    /\ pc = "syncMacros"
    /\ mfiles \in { m \in [Users -> MacroFileStates] :
                      RecordsIn(m["alice"]) + RecordsIn(m["bob"]) <= MaxRecords }
    /\ mrun \in { [pc |-> "readDir", order |-> o, files |-> <<>>, idx |-> 0,
                   lines |-> <<>>,
                   macros |-> [n \in MacroNames |-> NoMacro],
                   now |-> Max({ mfiles[u].mtime : u \in Users }) + 1,
                   pending |-> {}, stable |-> TRUE, quiet |-> TRUE] :
                  o \in { DirOrder, << DirOrder[2], DirOrder[1] >> } }
    /\ mret = <<>>

pushWatchVars == << inputs, pushVars, watchVars, users, writes, called >>

\* index.ts:308-320  the loop over the directory is over: the merged text is
\* built, one writeFile per identity marker is issued (none is awaited) and
\* the counts are returned; an empty body makes the call throw before that
MacrosReturn(run, macros) ==
    IF Throws(macros)
    THEN /\ mrun' = [run EXCEPT !.pc = "threw", !.macros = macros]
         /\ mret' = Append(mret, [threw |-> TRUE, text |-> <<>>,
                                  macrosSynced |-> 0, usersSynced |-> 0])
    ELSE /\ mrun' = [run EXCEPT
                        !.pc = "returned",
                        !.macros = macros,
                        !.pending = @ \cup { MacroWrite(u, Len(mret) + 1) : u \in keys }]
         /\ mret' = Append(mret,
                       [threw        |-> FALSE,
                        text         |-> MacroText(MergedRecords(macros)),
                        macrosSynced |-> Len(MergedRecords(macros)),
                        usersSynced  |-> Cardinality(keys)])

\* index.ts:279-287  readDir(hackmudPath) resolves with the entries the
\* directory holds at that time; the loop starts reading the first .macros
\* file, or is over at once when there is none
MacrosReadDirDone ==
    /\ pc = "syncMacros"
    /\ mrun.pc = "readDir"
    /\ LET files == MacroFilesIn(mrun.order, mfiles)
           run   == [mrun EXCEPT !.files = files, !.idx = 1, !.stable = TRUE]
           empty == [n \in MacroNames |-> NoMacro]
       IN  IF files = <<>>
           THEN MacrosReturn(run, empty)
           ELSE /\ mrun' = [run EXCEPT !.pc = "readFile", !.macros = empty]
                /\ UNCHANGED mret
    /\ UNCHANGED << pushWatchVars, testVars, writerVars, pullVars, mfiles >>

\* index.ts:287-288  readFile of the next .macros file resolves with the text
\* the file holds at that time, and stat is called
MacrosReadFileDone ==
    /\ pc = "syncMacros"
    /\ mrun.pc = "readFile"
    /\ mrun' = [mrun EXCEPT !.pc = "stat",
                            !.lines = mfiles[mrun.files[mrun.idx]].lines]
    /\ UNCHANGED << pushWatchVars, testVars, writerVars, pullVars, mfiles, mret >>

\* index.ts:288-320  stat resolves with the mtime the file has at that time:
\* the records read are merged under that date and the loop goes on to the
\* next file, or is over
MacrosStatDone ==
    /\ pc = "syncMacros"
    /\ mrun.pc = "stat"
    /\ LET date   == mfiles[mrun.files[mrun.idx]].mtime
           macros == MergeRecords(mrun.macros, ParseMacros(mrun.lines), date)
           run    == [mrun EXCEPT !.idx = @ + 1, !.lines = <<>>]
       IN  IF mrun.idx = Len(mrun.files)
           THEN MacrosReturn(run, macros)
           ELSE /\ mrun' = [run EXCEPT !.pc = "readFile", !.macros = macros]
                /\ UNCHANGED mret
    /\ UNCHANGED << pushWatchVars, testVars, writerVars, pullVars, mfiles >>

\* index.ts:318  writeFile opens the macro file: the file is created, or
\* truncated, at the time of the latest modification or later
MacrosWriteOpen(w, tick) ==
    /\ pc = "syncMacros"
    /\ w \in mrun.pending
    /\ ~w.open
    /\ mfiles' = [mfiles EXCEPT ![w.user] =
                     [present |-> TRUE, lines |-> << EmptyLine >>,
                      mtime |-> mrun.now + tick]]
    /\ mrun' = [mrun EXCEPT !.pending = (@ \ {w}) \cup { [w EXCEPT !.open = TRUE] },
                            !.now = @ + tick, !.stable = FALSE]
    /\ UNCHANGED << pushWatchVars, testVars, writerVars, pullVars, mret >>

\* index.ts:318  writeFile writes the text of its call into the file it has
\* opened, at the time of the latest modification or later, and completes;
\* an empty text is not written
MacrosWriteDone(w, tick) ==
    /\ pc = "syncMacros"
    /\ w \in mrun.pending
    /\ w.open
    /\ LET recs == ParseMacros(mret[w.run].text)
       IN  IF recs = <<>>
           THEN /\ tick = 0
                /\ UNCHANGED mfiles
                /\ mrun' = [mrun EXCEPT !.pending = @ \ {w}]
           ELSE /\ mfiles' = [mfiles EXCEPT ![w.user] =
                                 [present |-> TRUE,
                                  lines   |-> Overwritten(mfiles[w.user].lines, recs),
                                  mtime   |-> mrun.now + tick]]
                /\ mrun' = [mrun EXCEPT !.pending = @ \ {w}, !.now = @ + tick,
                                        !.stable = FALSE]
    /\ UNCHANGED << pushWatchVars, testVars, writerVars, pullVars, mret >>

\* index.ts:278, 317-320  syncMacros is called again after it has returned or
\* thrown, whether the writes it issued have completed or not
MacrosCallAgain ==
    /\ pc = "syncMacros"
    /\ mrun.pc \in {"returned", "threw"}
    /\ Len(mret) < MaxRuns
    /\ mrun' = [mrun EXCEPT !.pc = "readDir", !.files = <<>>, !.idx = 0,
                            !.quiet = @ /\ mrun.pending = {}]
    /\ UNCHANGED << pushWatchVars, testVars, writerVars, pullVars, mfiles, mret >>

NextMacros ==
    \/ MacrosReadDirDone
    \/ MacrosReadFileDone
    \/ MacrosStatDone
    \/ \E w \in mrun.pending, tick \in {0, 1} : MacrosWriteOpen(w, tick)
    \/ \E w \in mrun.pending, tick \in {0, 1} : MacrosWriteDone(w, tick)
    \/ MacrosCallAgain

SpecMacros == InitMacros /\ [][NextMacros]_vars

\* one call of syncMacros and the writes it issues
NextMerge ==
    \/ MacrosReadDirDone
    \/ MacrosReadFileDone
    \/ MacrosStatDone
    \/ \E w \in mrun.pending, tick \in {0, 1} : MacrosWriteOpen(w, tick)
    \/ \E w \in mrun.pending, tick \in {0, 1} : MacrosWriteDone(w, tick)

SpecMerge == InitMacros /\ [][NextMerge]_vars

(***************************************************************************)
(* Properties of syncMacros                                                *)
(***************************************************************************)
\* the (name, body) blocks of a text given as its lines
BlocksOf(lines) ==
    { << lines[i], lines[i + 1] >> : i \in { j \in 1 .. Len(lines) - 2 : j % 2 = 1 } }

BlockNames(lines) == { b[1] : b \in BlocksOf(lines) }

\* the macro files that hold a record of name n
Contributors(n) == { u \in Users : mfiles[u].present /\ n \in BlockNames(mfiles[u].lines) }

Newest(n) == Max({ mfiles[u].mtime : u \in Contributors(n) })

\* the merge of the last call is over and no write has completed since its
\* readDir resolved, so the macro files are the ones the call has read
MergeOver ==
    /\ pc = "syncMacros"
    /\ mrun.pc \in {"returned", "threw"}
    /\ mrun.stable

LastText == mret[Len(mret)].text

\* position of user u in the enumeration order of the call
ScanPos(u) == CHOOSE i \in DOMAIN mrun.order : mrun.order[i] = u

\* C11: the record kept for a name comes from a file with the greatest
\* timestamp among the files that hold the name, whatever the enumeration
\* order, and the text written has at most one block per name, whose body is
\* the body kept.
C11_NewestRecordWins ==
    MergeOver =>
        /\ \A n \in MacroNames :
              Contributors(n) # {} =>
                 /\ mrun.macros[n].date = Newest(n)
                 /\ \E u \in Contributors(n) :
                       /\ mfiles[u].mtime = Newest(n)
                       /\ << n, mrun.macros[n].macro >> \in BlocksOf(mfiles[u].lines)
        /\ mrun.pc = "returned" =>
              /\ Cardinality(BlocksOf(LastText)) = (Len(LastText) - 1) \div 2
              /\ \A b \in BlocksOf(LastText) :
                    /\ Contributors(b[1]) # {}
                    /\ b[2] = mrun.macros[b[1]].macro
                    /\ \A c \in BlocksOf(LastText) : c[1] = b[1] => c = b

\* C11 witness: the text written holds a block for a name that two files
\* contribute with different timestamps and different bodies, the older file
\* being enumerated after the newer one.
C11_Witness ==
    /\ MergeOver
    /\ mrun.pc = "returned"
    /\ keys # {}
    /\ \E n \in BlockNames(LastText) : \E u, v \in Contributors(n) :
          /\ mfiles[u].mtime > mfiles[v].mtime
          /\ ScanPos(u) < ScanPos(v)
          /\ << n, mrun.macros[n].macro >> \notin BlocksOf(mfiles[v].lines)

LowerCaseLetters == {"a", "b", "x", "y"}

\* the names the merge of the last call holds a record for
MergedNames == { n \in MacroNames : mrun.macros[n] # NoMacro }

\* C12 (as claimed): a merged record is in the text written, and counted in
\* the returned count, exactly when the first character of its name is a
\* lower-case letter.
C12_RetainedIffLowerCaseName ==
    (pc = "syncMacros" /\ mrun.pc = "returned") =>
        /\ \A n \in MergedNames :
              n \in BlockNames(LastText) <=> n[1] \in LowerCaseLetters
        /\ mret[Len(mret)].macrosSynced =
              Cardinality({ n \in MergedNames : n[1] \in LowerCaseLetters })

\* the records of a text given as its lines, in order
RecordsOf(lines) ==
    [ i \in 1 .. ((Len(lines) - 1) \div 2) |-> [name |-> lines[2 * i - 1], macro |-> lines[2 * i]] ]

\* the candidate records in the order the call scans them: file by file in
\* enumeration order, record by record within a file
RECURSIVE CandidatesOf(_)
CandidatesOf(us) ==
    IF us = <<>> THEN <<>>
    ELSE [ i \in DOMAIN RecordsOf(mfiles[Head(us)].lines) |->
             [ name  |-> RecordsOf(mfiles[Head(us)].lines)[i].name,
               macro |-> RecordsOf(mfiles[Head(us)].lines)[i].macro,
               date  |-> mfiles[Head(us)].mtime,
               file  |-> Head(us) ] ]
         \o CandidatesOf(Tail(us))

Candidates == CandidatesOf(SelectSeq(mrun.order, LAMBDA u : mfiles[u].present))

\* the first candidate of name n that no candidate of that name is newer than
FirstNewest(n) ==
    LET c == Candidates
        i == CHOOSE k \in DOMAIN c :
                /\ c[k].name = n
                /\ \A j \in DOMAIN c : c[j].name = n => c[j].date <= c[k].date
                /\ \A j \in 1 .. k - 1 : c[j].name = n => c[j].date < c[k].date
    IN  c[i]

\* C18: of the candidate records of a name that carry the greatest timestamp
\* the one scanned first is kept: a later record of equal timestamp, in
\* another file or in the same file, does not replace it.
C18_EarlierKeptOnTie ==
    MergeOver =>
        \A n \in MacroNames :
            Contributors(n) # {} =>
                /\ mrun.macros[n].macro = FirstNewest(n).macro
                /\ mrun.macros[n].date = FirstNewest(n).date

\* C18 witness: two files with equal timestamps hold records of one name with
\* different bodies and the merge is over.
C18_Witness ==
    /\ MergeOver
    /\ \E i, j \in DOMAIN Candidates :
          /\ i < j
          /\ Candidates[i].name = Candidates[j].name
          /\ Candidates[i].date = Candidates[j].date
          /\ Candidates[i].file # Candidates[j].file
          /\ Candidates[i].macro # Candidates[j].macro
          /\ mrun.macros[Candidates[i].name].macro = Candidates[i].macro

\* C20 (as claimed): a call made after the writes of the previous call have
\* completed, nothing else having changed, produces what the first call
\* produced: the same text and the same counts.
C20_SyncMacrosIdempotent ==
    (pc = "syncMacros" /\ mrun.quiet) => \A i \in DOMAIN mret : mret[i] = mret[1]

(***************************************************************************)
(* test  (index.ts:323-343)                                                *)
(***************************************************************************)
\* index.ts:334, 337  the files test hands to the Transformer
TestScripts(tree) == { e \in tree : e.kind = "file" /\ e.ext \in supportedExtensions }

\* index.ts:336, 338  the file label of an entry of errors
TestPath(f) == IF f.owner = Root THEN << f.name, f.ext >> ELSE << f.owner, "/", f.name, f.ext >>

\* variant: an empty output is recorded as an error too
TestRecords_Empty(r) == TransformError(r) # NoError

\* index.ts:335-338  the catch handler runs when processScript rejects
TestRecords(r) == r.rejected

\* index.ts:323-331  test has been called and awaits readDir(srcPath)
InitTest ==
    /\ srcTree \in SrcTrees
    /\ usersArg = <<>>
    /\ keys = {}
    /\ scriptsArg = <<>>
    /\ hasOnPush = FALSE
    /\ users = <<>>
    /\ pc = "test"
    /\ scans = [u \in Users |-> "none"]
    /\ skips = [n \in Names |-> <<>>]
    /\ task = [f \in srcTree |-> "idle"]
    /\ result = [f \in srcTree |-> NoResult]
    /\ infoAll = <<>>
    /\ writes = {}
    /\ called = {}
    /\ resolved = FALSE
    /\ infoAtResolve = <<>>
    /\ events = <<>>
    /\ unhandled = {}
    /\ MacrosIdle
    /\ TestIdle
    /\ WriterIdle
    /\ PullIdle

\* index.ts:331  readDir(srcPath) resolves
TestReadSrcDone ==
    /\ pc = "test"
    /\ pc' = "testing"
    /\ UNCHANGED << inputs, macroVars, writerVars, pullVars, watchVars, users,
                    scans, skips, task,
                    result, infoAll, writes, called, resolved, infoAtResolve, errors >>

\* index.ts:333-338  the loop reaches file f (the directories are enumerated
\* in any order): readFile resolves and processScript is called on the text
TestReadFileDone(f) ==
    /\ pc = "testing"
    /\ f \in TestScripts(srcTree)
    /\ task[f] = "idle"
    /\ task' = [task EXCEPT ![f] = "transforming"]
    /\ UNCHANGED << inputs, macroVars, writerVars, pullVars, watchVars, users,
                    pc, scans, skips,
                    result, infoAll, writes, called, resolved, infoAtResolve, errors >>

\* index.ts:335-338  processScript settles; a rejection appends to errors
TestTransformDone(f, r) ==
    /\ pc = "testing"
    /\ task[f] = "transforming"
    /\ task' = [task EXCEPT ![f] = "done"]
    /\ result' = [result EXCEPT ![f] = r]
    /\ errors' = IF TestRecords(r)
                 THEN Append(errors, [file |-> TestPath(f), error |-> "rejected"])
                 ELSE errors
    /\ UNCHANGED << inputs, macroVars, writerVars, pullVars, watchVars, users,
                    pc, scans, skips,
                    infoAll, writes, called, resolved, infoAtResolve >>

\* index.ts:340-342  the loop is over and Promise.all(promises) resolves:
\* errors is returned
TestReturn ==
    /\ pc = "testing"
    /\ \A f \in TestScripts(srcTree) : task[f] = "done"
    /\ pc' = "tested"
    /\ resolved' = TRUE
    /\ UNCHANGED << inputs, macroVars, writerVars, pullVars, watchVars, users,
                    scans, skips, task,
                    result, infoAll, writes, called, infoAtResolve, errors >>

NextTest ==
    \/ TestReadSrcDone
    \/ \E f \in srcTree : TestReadFileDone(f)
    \/ \E f \in srcTree, r \in TransformResults : TestTransformDone(f, r)
    \/ TestReturn

SpecTest == InitTest /\ [][NextTest]_vars

(***************************************************************************)
(* Properties of test                                                      *)
(***************************************************************************)
\* the files of the tree the Transformer rejected
Rejected == { f \in srcTree : IsScript(f) /\ task[f] = "done" /\ result[f].rejected }

EntriesFor(f) == { i \in DOMAIN errors : errors[i].file = TestPath(f) }

\* C13: the list test returns has exactly one entry per file the Transformer
\* rejected, naming that file, and no other entry; test issues no write and
\* leaves the macro files alone.
C13_TestReportsRejectedOnly ==
    /\ pc \in {"test", "testing", "tested"} => (writes = {} /\ MacrosIdle /\ WriterIdle)
    /\ pc = "tested" =>
          /\ Len(errors) = Cardinality(Rejected)
          /\ \A f \in Rejected : Cardinality(EntriesFor(f)) = 1
          /\ \A i \in DOMAIN errors : \E f \in Rejected : errors[i].file = TestPath(f)
          /\ \A f \in srcTree : IsScript(f) => task[f] = "done"

\* C13 witness: test has returned over a tree with a file the Transformer
\* rejected and a file for which it returned an empty text.
C13_Witness ==
    /\ pc = "tested"
    /\ Rejected # {}
    /\ \E f \in srcTree : IsScript(f) /\ ~result[f].rejected /\ result[f].code = <<>>

(***************************************************************************)
(* Properties of push: failures                                            *)
(***************************************************************************)
WriteFailed(f) == \E w \in WritesOf(f) : w.status = "failed"

\* C14 (as claimed): in push, the Info of a file one of whose writes has
\* failed carries a non-null error, in the result list and in what the
\* callback was invoked with.
C14_WriteFailureInInfo ==
    pc \in {"readSrc", "readKeys", "join", "globals", "resolved"} =>
        /\ \A x \in Range(infoAll) : WriteFailed(x.file) => x.error # NoError
        /\ \A x \in called : WriteFailed(x.file) => x.error # NoError

InPush == pc \in {"readSrc", "readKeys", "join", "globals", "resolved"}

\* the user directories whose enumeration has failed
FailedDirs == { u \in Users : scans[u] = "failed" }

\* C15 (as claimed): when the enumeration of a user directory has failed and
\* nothing of the call can make a step any more, the promise of push has
\* resolved and every file that passed the filters, the global scripts
\* included, has been processed, except those of the failed directory.
C15_ScanFailureContained ==
    (InPush /\ FailedDirs # {} /\ ~ENABLED NextScan) =>
        /\ resolved
        /\ \A f \in Eligible : f.owner \notin FailedDirs => HasInfo(f)

\* the user directories push scans
ScannedDirs == { u \in UserDirs(srcTree) : UserAdmitted(u) }

\* a global script of push whose skip list has been read or that has a write
Deploying(f) == f.owner = Root /\ (task[f] = "done" \/ HasInfo(f) \/ WritesOf(f) # {})

\* the handler of a root-level event of watch that has read the skip list
\* or issued a write
WatchDeploying(e) ==
    /\ events[e].file.owner = Root
    /\ \/ events[e].pc \in {"readKeys", "awaitWrites", "done"}
       \/ Emitted(e)
       \/ WritesOfEvent(e) # {}

\* C16: in push, and in the handler of a root-level event of watch, the skip
\* list of a global script is read, and a write of it issued, only when the
\* scan of every user directory that is scanned has completed.
C16_GlobalsAfterScans ==
    /\ InPush =>
          \A f \in srcTree :
              Deploying(f) => \A u \in ScannedDirs : scans[u] = "done"
    /\ pc = "watch" =>
          \A e \in DOMAIN events :
              WatchDeploying(e) => \A u \in UserDirs(srcTree) : events[e].scans[u] = "done"

\* C16 witness: push has written a global script after the scans of two
\* user directories completed, bob's before alice's.
C16_Witness ==
    /\ InPush
    /\ skips["foo"] = << "bob", "alice" >>
    /\ \E f \in srcTree : f.owner = Root /\ \E w \in WritesOf(f) : w.status = "ok"

(***************************************************************************)
(* Properties of watch: the user filter over time                          *)
(***************************************************************************)
\* C17 (as claimed): with an empty user filter, a change event for a private
\* script whose name passes the script filter is never filtered out, whether
\* or not a root-level event was handled before it.
C17_WatchFilterUnchangedByEvents ==
    (pc = "watch" /\ usersArg = <<>>) =>
        \A e \in DOMAIN events :
            (events[e].file.owner \in Users /\ IsScript(events[e].file)
               /\ NameAdmitted(events[e].file.name))
            => events[e].pc # "ignored"

(***************************************************************************)
(* writeFilePersist  (index.ts:405-416)                                    *)
(*                                                                         *)
(* Concurrent calls for files of one parent directory                      *)
(* <hackmudDir>/<user>/scripts, of which any number of levels is missing.  *)
(***************************************************************************)
\* greatest number of concurrent calls of writeFilePersist
MaxWriters == 2
\* the directories between the deployment root and a deployed file:
\* <user> and scripts
ParentDepth == 2

\* variant: mkdir without the recursive option fails on an existing directory
MkdirFails_IfExists(exists) == exists

\* index.ts:409  mkDir(..., { recursive: true }) does not fail on a directory
\* that exists
MkdirFails(exists) == FALSE

Writer(n) == [pc |-> "write", name |-> n, lvl |-> 0, hit |-> FALSE, retries |-> 0]

\* the calls have been made and each awaits its first writeFile
InitWriter ==
    /\ PushWatchIdle
    /\ MacrosIdle
    /\ TestIdle
    /\ PullIdle
    /\ keys = {}
    /\ pc = "writeFilePersist"
    /\ fs \in [dirs : 0 .. ParentDepth, files : {{}}, healthy : BOOLEAN]
    /\ writers \in { [ i \in DOMAIN ns |-> Writer(ns[i]) ] :
                       ns \in SeqsUpTo(Names, MaxWriters) \ { <<>> } }

writerFrame == << pushWatchVars, macroVars, testVars, pullVars >>

\* index.ts:406  the first writeFile settles: the file is written, or the
\* parent directory is missing and the catch handler starts mkDir
WriterWriteDone(w) ==
    /\ pc = "writeFilePersist"
    /\ writers[w].pc = "write"
    /\ IF fs.dirs = ParentDepth
       THEN /\ fs' = [fs EXCEPT !.files = @ \cup {writers[w].name}]
            /\ writers' = [writers EXCEPT ![w].pc = "done"]
       ELSE /\ writers' = [writers EXCEPT ![w].pc = "mkdir", ![w].lvl = 1, ![w].hit = TRUE]
            /\ UNCHANGED fs
    /\ UNCHANGED writerFrame

\* index.ts:409  mkDir makes the next level of the parent path, or finds it
\* made by another call; after the last level the write is issued again
WriterMkdirStep(w) ==
    /\ pc = "writeFilePersist"
    /\ writers[w].pc = "mkdir"
    /\ LET lvl    == writers[w].lvl
           exists == fs.dirs >= lvl
       IN  IF MkdirFails(exists)
           THEN /\ writers' = [writers EXCEPT ![w].pc = "failed"]
                /\ UNCHANGED fs
           ELSE /\ fs' = [fs EXCEPT !.dirs = IF exists THEN @ ELSE lvl]
                /\ writers' = [writers EXCEPT
                                  ![w].lvl = lvl + 1,
                                  ![w].pc = IF lvl = ParentDepth THEN "retry" ELSE "mkdir"]
    /\ UNCHANGED writerFrame

\* index.ts:410  the second writeFile settles; its failure is not caught
WriterRetryDone(w) ==
    /\ pc = "writeFilePersist"
    /\ writers[w].pc = "retry"
    /\ IF fs.dirs = ParentDepth
       THEN /\ fs' = [fs EXCEPT !.files = @ \cup {writers[w].name}]
            /\ writers' = [writers EXCEPT ![w].pc = "done", ![w].retries = @ + 1]
       ELSE /\ writers' = [writers EXCEPT ![w].pc = "failed", ![w].retries = @ + 1]
            /\ UNCHANGED fs
    /\ UNCHANGED writerFrame

\* index.ts:406-413  a failure other than a missing parent (of the first
\* writeFile, of mkDir or of the second writeFile) makes the call reject; the
\* second writeFile that fails has been issued all the same
WriterOtherError(w) ==
    /\ pc = "writeFilePersist"
    /\ ~fs.healthy
    /\ writers[w].pc \in {"write", "mkdir", "retry"}
    /\ writers' = [writers EXCEPT
                      ![w].pc = "failed",
                      ![w].retries = IF writers[w].pc = "retry" THEN @ + 1 ELSE @]
    /\ UNCHANGED << writerFrame, fs >>

WriterStep(w) ==
    \/ WriterWriteDone(w)
    \/ WriterMkdirStep(w)
    \/ WriterRetryDone(w)

NextWriter ==
    \/ \E w \in DOMAIN writers : WriterWriteDone(w)
    \/ \E w \in DOMAIN writers : WriterMkdirStep(w)
    \/ \E w \in DOMAIN writers : WriterRetryDone(w)
    \/ \E w \in DOMAIN writers : WriterOtherError(w)

SpecWriter == InitWriter /\ [][NextWriter]_vars

(***************************************************************************)
(* pull  (index.ts:273-276)  and copyFilePersist  (index.ts:420-431)       *)
(*                                                                         *)
(* One call of pull for the script <user>.<name>, over a source tree; the  *)
(* deployed script <hackmudPath>/<user>/scripts/<name>.js exists or not.   *)
(***************************************************************************)
\* index.ts:275  the destination of the copy, <srcPath>/<user>/<name>.js
PullDest(u, n) == [owner |-> u, name |-> n, ext |-> ".js", kind |-> "file"]

\* the directory <srcPath>/<u> exists: it holds an entry, or mkDir made it
SrcDirExists(tree, p) == p.user \in UserDirs(tree) \/ p.made

\* index.ts:421, 425  the error copyFile fails with: the deployed script or
\* the directory of the destination is missing, or the destination is a
\* directory
CopyFileError(tree, p) ==
    IF ~p.deployed \/ ~SrcDirExists(tree, p) THEN "ENOENT"
    ELSE IF [PullDest(p.user, p.name) EXCEPT !.kind = "dir"] \in tree THEN "EISDIR"
    ELSE NoError

\* index.ts:421, 425  the source tree after copyFile has succeeded: the
\* destination is added, or is overwritten if the tree holds it
Copied(tree, p) == tree \cup { PullDest(p.user, p.name) }

\* index.ts:273-275, 420-421  pull has been called and awaits the first
\* copyFile
InitPull ==
    /\ srcTree \in SrcTrees
    /\ keys = {}
    /\ usersArg = <<>>
    /\ scriptsArg = <<>>
    /\ hasOnPush = FALSE
    /\ users = <<>>
    /\ pc = "pull"
    /\ scans = [u \in Users |-> "none"]
    /\ skips = [n \in Names |-> <<>>]
    /\ task = << >>
    /\ result = << >>
    /\ infoAll = <<>>
    /\ writes = {}
    /\ called = {}
    /\ resolved = FALSE
    /\ infoAtResolve = <<>>
    /\ events = <<>>
    /\ unhandled = {}
    /\ MacrosIdle
    /\ TestIdle
    /\ WriterIdle
    /\ pull \in [pc : {"copyFile"}, user : Users, name : Names, deployed : BOOLEAN,
                 made : {FALSE}, copied : {FALSE}, error : {NoError}]

pullFrame == << keys, usersArg, scriptsArg, hasOnPush, pushVars, watchVars, users, writes,
                called, macroVars, testVars, writerVars >>

\* index.ts:421-428  the first copyFile settles: the script is copied, or the
\* catch handler starts mkDir on ENOENT, or rethrows another error
PullCopyFileDone ==
    /\ pc = "pull"
    /\ pull.pc = "copyFile"
    /\ LET err == CopyFileError(srcTree, pull)
       IN  IF err = NoError
           THEN /\ srcTree' = Copied(srcTree, pull)
                /\ pull' = [pull EXCEPT !.pc = "done", !.copied = TRUE]
           ELSE /\ pull' = IF err = "ENOENT"
                           THEN [pull EXCEPT !.pc = "mkDir"]
                           ELSE [pull EXCEPT !.pc = "failed", !.error = err]
                /\ UNCHANGED srcTree
    /\ UNCHANGED pullFrame

\* index.ts:424-425  mkDir(<srcPath>/<user>, { recursive: true }) resolves,
\* the directory being there or not, and copyFile is called again
PullMkDirDone ==
    /\ pc = "pull"
    /\ pull.pc = "mkDir"
    /\ pull' = [pull EXCEPT !.pc = "retry", !.made = TRUE]
    /\ UNCHANGED << pullFrame, srcTree >>

\* index.ts:425  the second copyFile settles; its failure is not caught
PullRetryDone ==
    /\ pc = "pull"
    /\ pull.pc = "retry"
    /\ LET err == CopyFileError(srcTree, pull)
       IN  IF err = NoError
           THEN /\ srcTree' = Copied(srcTree, pull)
                /\ pull' = [pull EXCEPT !.pc = "done", !.copied = TRUE]
           ELSE /\ pull' = [pull EXCEPT !.pc = "failed", !.error = err]
                /\ UNCHANGED srcTree
    /\ UNCHANGED pullFrame

NextPull ==
    \/ PullCopyFileDone
    \/ PullMkDirDone
    \/ PullRetryDone

SpecPull == InitPull /\ [][NextPull]_vars

(***************************************************************************)
(* Properties of writeFilePersist                                          *)
(***************************************************************************)
\* C19: as long as no failure other than a missing parent occurs, no call
\* fails, a call that is not over can always make its next step whatever the
\* other calls have done, a call that is over has written its file, and a
\* call has issued its write again exactly once if it met the missing parent
\* and never otherwise.
C19_ConcurrentWritersComplete ==
    (pc = "writeFilePersist" /\ fs.healthy) =>
        \A w \in DOMAIN writers :
            /\ writers[w].pc # "failed"
            /\ writers[w].pc # "done" => ENABLED WriterStep(w)
            /\ writers[w].pc = "done" =>
                  /\ writers[w].name \in fs.files
                  /\ writers[w].retries = IF writers[w].hit THEN 1 ELSE 0
            /\ writers[w].retries <= 1

\* C19 witness: two calls for different files of one parent have both met
\* the missing parent and both are over, with both files written.
C19_Witness ==
    /\ pc = "writeFilePersist"
    /\ \E v, w \in DOMAIN writers :
          /\ v # w
          /\ writers[v].name # writers[w].name
          /\ writers[v].hit /\ writers[w].hit
          /\ writers[v].pc = "done" /\ writers[w].pc = "done"
          /\ {writers[v].name, writers[w].name} \subseteq fs.files

====
